---- MODULE Spec2Model ----
\* A model of serial_linux.go: openPort and the Port handle operations, run
\* against a small model of the kernel the code talks to (a descriptor table
\* and serial devices with modem lines and terminal attributes).
EXTENDS Integers, Sequences, FiniteSets, TLC

\* ------------------------------------------------------------------ bounds

\* Size of the process's descriptor table: descriptors are 1..MaxFd.
MaxFd == 2
\* Number of Port handles created over a behaviour.
MaxPorts == 2

\* The device nodes.
Devs == {"ttyUSB0", "ttyUSB1"}

\* -------------------------------------------------- constants of the platform

\* A flag word (a uint32 or uint bit mask) is the set of the positions of
\* its one bits: 0x80 is {7}, 0x30 is {4, 5}, 0 is {}.
O_RDWR == {1}
O_NOCTTY == {8}
O_NONBLOCK == {11}

CREAD == {7}
CLOCAL == {11}
BOTHER == {12}
HUPCL == {10}
CS5 == {}
CS6 == {4}
CS7 == {5}
CS8 == {4, 5}
CSTOPB == {6}
PARENB == {8}
PARODD == {9}
CMSPAR == {30}
IGNPAR == {2}
TIOCM_DTR == {1}
TIOCM_RTS == {2}
TCIOFLUSH == {1}

\* the slots of the control characters
VMIN == 6
VTIME == 5

\* The configuration enumerations (declared beside Port in the package).
Stop1 == 1
Stop2 == 2
Stop1_5 == 15
ParityNone == "N"
ParityOdd == "O"
ParityEven == "E"
ParityMark == "M"
ParitySpace == "S"

\* error values: nil is the empty string
NoErr == ""
ErrBadSize == "ErrBadSize"
ErrBadStopBits == "ErrBadStopBits"
ErrBadParity == "ErrBadParity"

\* ------------------------------------------------------------- bit operations

\* a | b
BitOr(a, b) == a \cup b

\* a & b
BitAnd(a, b) == a \cap b

\* a &^ b: a with the bits of b cleared
BitClear(a, b) == a \ b

\* A Go int (64 bits) is kept as four 16-bit limbs, least significant first;
\* a uint32 as two.
Limbs(lo, hi) == <<lo, hi, 0, 0>>
\* uint32(x): the conversion keeps the low 32 bits
Uint32(x) == <<x[1], x[2]>>

\* ------------------------------------------------- the attributes openPort builds

\* Durations are counted in microseconds (time.Duration counts nanoseconds;
\* nothing the code computes distinguishes durations below a microsecond
\* apart from zero).
Durations == {0, 1, 1000, 49999, 50000, 150000, 1000000, 25500000, 30000000}

\* The timeout translator: (VMIN, VTIME) for a read timeout.
\*   0  -> one byte, no timer;  d > 0 -> no minimum, round(d / 100ms) in 1..255
posixTimeoutValues(readTimeout) ==
    IF readTimeout = 0
    THEN <<1, 0>>
    ELSE LET deci == (readTimeout + 50000) \div 100000
         IN  <<0, IF deci < 1 THEN 1 ELSE IF deci > 255 THEN 255 ELSE deci>>

\* the base settings without hang-up-on-close
BaseCflagNoHupcl == BitOr(BitOr(CREAD, CLOCAL), BOTHER)

\* var cflagToUse uint32 = CREAD | CLOCAL | BOTHER | HUPCL
BaseCflag == BitOr(BitOr(BitOr(CREAD, CLOCAL), BOTHER), HUPCL)

\* SizeCflag with an unknown size taken as 8 bits instead of refused
SizeCflagDefault8(cflag, databits) ==
    CASE databits = 5 -> [err |-> NoErr, cflag |-> BitOr(cflag, CS5)]
      [] databits = 6 -> [err |-> NoErr, cflag |-> BitOr(cflag, CS6)]
      [] databits = 7 -> [err |-> NoErr, cflag |-> BitOr(cflag, CS7)]
      [] OTHER -> [err |-> NoErr, cflag |-> BitOr(cflag, CS8)]

\* SizeCflag with the flags of 6 and 7 bits exchanged
SizeCflagSwapped(cflag, databits) ==
    CASE databits = 5 -> [err |-> NoErr, cflag |-> BitOr(cflag, CS5)]
      [] databits = 6 -> [err |-> NoErr, cflag |-> BitOr(cflag, CS7)]
      [] databits = 7 -> [err |-> NoErr, cflag |-> BitOr(cflag, CS6)]
      [] databits = 8 -> [err |-> NoErr, cflag |-> BitOr(cflag, CS8)]
      [] OTHER -> [err |-> ErrBadSize, cflag |-> cflag]

\* switch databits
SizeCflag(cflag, databits) ==
    CASE databits = 5 -> [err |-> NoErr, cflag |-> BitOr(cflag, CS5)]
      [] databits = 6 -> [err |-> NoErr, cflag |-> BitOr(cflag, CS6)]
      [] databits = 7 -> [err |-> NoErr, cflag |-> BitOr(cflag, CS7)]
      [] databits = 8 -> [err |-> NoErr, cflag |-> BitOr(cflag, CS8)]
      [] OTHER -> [err |-> ErrBadSize, cflag |-> cflag]

\* StopCflag with an unknown value degraded to one stop bit
StopCflagDegrade(cflag, stopbits) ==
    CASE stopbits = Stop2 -> [err |-> NoErr, cflag |-> BitOr(cflag, CSTOPB)]
      [] OTHER -> [err |-> NoErr, cflag |-> cflag]

\* StopCflag with the flag of two stop bits on the wrong arm
StopCflagSwapped(cflag, stopbits) ==
    CASE stopbits = Stop1 -> [err |-> NoErr, cflag |-> BitOr(cflag, CSTOPB)]
      [] stopbits = Stop2 -> [err |-> NoErr, cflag |-> cflag]
      [] OTHER -> [err |-> ErrBadStopBits, cflag |-> cflag]

\* switch stopbits
StopCflag(cflag, stopbits) ==
    CASE stopbits = Stop1 -> [err |-> NoErr, cflag |-> cflag]
      [] stopbits = Stop2 -> [err |-> NoErr, cflag |-> BitOr(cflag, CSTOPB)]
      [] OTHER -> [err |-> ErrBadStopBits, cflag |-> cflag]

\* ParityCflag with the stick-parity flag of mark parity left out
ParityCflagNoStick(cflag, parity) ==
    CASE parity = ParityNone -> [err |-> NoErr, cflag |-> cflag]
      [] parity = ParityOdd ->
            [err |-> NoErr, cflag |-> BitOr(BitOr(cflag, PARENB), PARODD)]
      [] parity = ParityEven -> [err |-> NoErr, cflag |-> BitOr(cflag, PARENB)]
      [] parity = ParityMark ->
            [err |-> NoErr, cflag |-> BitOr(BitOr(cflag, PARENB), PARODD)]
      [] OTHER -> [err |-> ErrBadParity, cflag |-> cflag]

\* switch parity
ParityCflag(cflag, parity) ==
    CASE parity = ParityNone -> [err |-> NoErr, cflag |-> cflag]
      [] parity = ParityOdd ->
            [err |-> NoErr, cflag |-> BitOr(BitOr(cflag, PARENB), PARODD)]
      [] parity = ParityEven -> [err |-> NoErr, cflag |-> BitOr(cflag, PARENB)]
      [] parity = ParityMark ->
            [err |-> NoErr,
             cflag |-> BitOr(BitOr(BitOr(cflag, PARENB), CMSPAR), PARODD)]
      [] OTHER -> [err |-> ErrBadParity, cflag |-> cflag]

\* BuildCflag with the three switches in the order parity, stop bits, data
\* bits
BuildCflagParityFirst(databits, parity, stopbits) ==
    LET a == ParityCflag(BaseCflag, parity)
    IN  IF a.err # NoErr THEN a
        ELSE LET b == StopCflag(a.cflag, stopbits)
             IN  IF b.err # NoErr THEN b
                 ELSE SizeCflag(b.cflag, databits)

\* The three switches in the order of the code: the first one that fails
\* returns its error.
BuildCflag(databits, parity, stopbits) ==
    LET a == SizeCflag(BaseCflag, databits)
    IN  IF a.err # NoErr THEN a
        ELSE LET b == StopCflag(a.cflag, stopbits)
             IN  IF b.err # NoErr THEN b
                 ELSE ParityCflag(b.cflag, parity)

\* BuildTermios with the two control-character slots exchanged
BuildTermiosSwapped(cflagToUse, baud, vmin, vtime) ==
    LET speed == Uint32(baud)
    IN  [Iflag |-> IGNPAR,
         Oflag |-> {},
         Cflag |-> cflagToUse,
         Lflag |-> {},
         Line |-> 0,
         Cc |-> [i \in 0..18 |-> IF i = VMIN THEN vtime
                                 ELSE IF i = VTIME THEN vmin ELSE 0],
         Ispeed |-> speed,
         Ospeed |-> speed]

\* t := unix.Termios{Iflag, Cflag, Ispeed, Ospeed}; t.Cc[VMIN], t.Cc[VTIME]
\* (the fields the literal leaves out are zero)
BuildTermios(cflagToUse, baud, vmin, vtime) ==
    LET speed == Uint32(baud)
    IN  [Iflag |-> IGNPAR,
         Oflag |-> {},
         Cflag |-> cflagToUse,
         Lflag |-> {},
         Line |-> 0,
         Cc |-> [i \in 0..18 |-> IF i = VMIN THEN vmin
                                 ELSE IF i = VTIME THEN vtime ELSE 0],
         Ispeed |-> speed,
         Ospeed |-> speed]

\* ------------------------------------------------------------------- state

VARIABLES
    fdtab,   \* the process's descriptor table: fd -> what it is open on
    dev,     \* the devices: modem lines, terminal attributes, whether the
             \* input and output queues hold data, the last break asked for
    ports,   \* the Port handles created so far: ports[h].f is the descriptor
             \* of the handle's os.File, -1 once the file is closed
    last,    \* the last call made on the package and what it did
    cfg,     \* the configuration the caller opens its ports with
    inflight \* the device-control call of a second goroutine that has read
             \* p.f.Fd() and has not made its system call yet

vars == <<fdtab, dev, ports, last, cfg, inflight>>

FreeFd == [open |-> FALSE, dev |-> "", nonblock |-> FALSE]

Fds == 1..MaxFd

ValidFd(k, fd) == fd \in Fds /\ k.fdtab[fd].open

NumOpen(tab) == Cardinality({n \in Fds : tab[n].open})

\* one system call in the record of a call: its descriptor argument, its
\* flag-word argument (arg) or integer argument (n), whether it succeeded
Call(c, fd, arg, ok) ==
    [call |-> c, fd |-> fd, arg |-> arg, n |-> 0, ok |-> ok]

CallN(c, fd, n, ok) ==
    [call |-> c, fd |-> fd, arg |-> {}, n |-> n, ok |-> ok]

\* ----------------------------------------------------- the kernel's side
\* Each operator takes the kernel state k = [fdtab, dev] and gives the state
\* after the call with the call's result. `ok` is the environment's choice
\* for a call that can fail for reasons outside the program.

\* open(2): the lowest free descriptor
SysOpen(k, name, flags, ok) ==
    LET free == {n \in Fds : ~k.fdtab[n].open}
    IN  IF ~ok THEN [k |-> k, fd |-> -1, err |-> "ENOENT"]
        ELSE IF free = {} THEN [k |-> k, fd |-> -1, err |-> "EMFILE"]
        ELSE LET fd == CHOOSE n \in free : \A m \in free : n <= m
             IN  [k |-> [k EXCEPT !.fdtab[fd] =
                            [open |-> TRUE, dev |-> name,
                             nonblock |-> BitAnd(flags, O_NONBLOCK) # {}]],
                  fd |-> fd, err |-> NoErr]

\* ioctl(fd, TIOCMBIS | TIOCMBIC, &mask): set or clear modem lines
SysModem(k, fd, req, mask, ok) ==
    IF ~ValidFd(k, fd) THEN [k |-> k, err |-> "EBADF"]
    ELSE IF ~ok THEN [k |-> k, err |-> "ENOTTY"]
    ELSE LET d == k.fdtab[fd].dev
         IN  [k |-> [k EXCEPT !.dev[d].lines =
                        IF req = "TIOCMBIS" THEN BitOr(@, mask)
                                            ELSE BitClear(@, mask)],
              err |-> NoErr]

\* ioctl(fd, TIOCMGET, &status)
SysModemGet(k, fd, ok) ==
    IF ~ValidFd(k, fd) THEN [status |-> {}, err |-> "EBADF"]
    ELSE IF ~ok THEN [status |-> {}, err |-> "ENOTTY"]
    ELSE [status |-> k.dev[k.fdtab[fd].dev].lines, err |-> NoErr]

\* ioctl(fd, TCSETS2, &t): the attributes are taken whole or not at all
SysTcsets2(k, fd, t, ok) ==
    IF ~ValidFd(k, fd) THEN [k |-> k, err |-> "EBADF"]
    ELSE IF ~ok THEN [k |-> k, err |-> "EINVAL"]
    ELSE [k |-> [k EXCEPT !.dev[k.fdtab[fd].dev].termios = <<t>>],
          err |-> NoErr]

\* fcntl(fd, F_SETFL, ...): set or clear O_NONBLOCK
SysSetNonblock(k, fd, nonblocking, ok) ==
    IF ~ValidFd(k, fd) THEN [k |-> k, err |-> "EBADF"]
    ELSE IF ~ok THEN [k |-> k, err |-> "EIO"]
    ELSE [k |-> [k EXCEPT !.fdtab[fd].nonblock = nonblocking], err |-> NoErr]

\* ioctl(fd, TCFLSH, TCIOFLUSH): both queues of the device are discarded
SysFlush(k, fd, ok) ==
    IF ~ValidFd(k, fd) THEN [k |-> k, err |-> "EBADF"]
    ELSE IF ~ok THEN [k |-> k, err |-> "ENOTTY"]
    ELSE LET d == k.fdtab[fd].dev
         IN  [k |-> [k EXCEPT !.dev[d].inq = FALSE, !.dev[d].outq = FALSE],
              err |-> NoErr]

\* ioctl(fd, TCSBRK, arg): the driver is asked for a break with the argument
\* arg (0: the default break of 0.25 to 0.5 seconds)
SysBreak(k, fd, arg, ok) ==
    IF ~ValidFd(k, fd) THEN [k |-> k, err |-> "EBADF"]
    ELSE IF ~ok THEN [k |-> k, err |-> "ENOTTY"]
    ELSE [k |-> [k EXCEPT !.dev[k.fdtab[fd].dev].brk = <<arg>>], err |-> NoErr]

\* read(fd, b): what was received is taken from the input queue; the count
\* is 0 when the read timed out with nothing received
SysRead(k, fd, len, ok) ==
    IF ~ValidFd(k, fd) THEN [k |-> k, n |-> 0, err |-> "EBADF"]
    ELSE IF ~ok THEN [k |-> k, n |-> 0, err |-> "EIO"]
    ELSE LET d == k.fdtab[fd].dev
         IN  IF k.dev[d].inq /\ len > 0
             THEN [k |-> [k EXCEPT !.dev[d].inq = FALSE], n |-> 1,
                   err |-> NoErr]
             ELSE [k |-> k, n |-> 0, err |-> NoErr]

\* write(fd, b): the bytes are put on the output queue
SysWrite(k, fd, len, ok) ==
    IF ~ValidFd(k, fd) THEN [k |-> k, n |-> 0, err |-> "EBADF"]
    ELSE IF ~ok THEN [k |-> k, n |-> 0, err |-> "EIO"]
    ELSE LET d == k.fdtab[fd].dev
         IN  [k |-> IF len > 0 THEN [k EXCEPT !.dev[d].outq = TRUE] ELSE k,
              n |-> len, err |-> NoErr]

\* close(2). The last close of a device whose attributes carry HUPCL hangs
\* up: the driver lowers DTR and RTS.
SysClose(k, fd) ==
    IF ~ValidFd(k, fd) THEN [k |-> k, err |-> "EBADF"]
    ELSE LET d == k.fdtab[fd].dev
             others == {n \in Fds \ {fd} : k.fdtab[n].open /\ k.fdtab[n].dev = d}
             hangup == /\ others = {}
                       /\ k.dev[d].termios # <<>>
                       /\ BitAnd(k.dev[d].termios[1].Cflag, HUPCL) # {}
         IN  [k |-> [fdtab |-> [k.fdtab EXCEPT ![fd] = FreeFd],
                     dev |-> IF hangup
                             THEN [k.dev EXCEPT ![d].lines =
                                      BitClear(@, BitOr(TIOCM_DTR, TIOCM_RTS))]
                             ELSE k.dev],
              err |-> NoErr]

\* ----------------------------------------------------------------- openPort

OpenFlags == BitOr(BitOr(O_RDWR, O_NOCTTY), O_NONBLOCK)

\* What the environment decides for one openPort call: whether the open,
\* the DTR raise, the attribute apply and the clearing of O_NONBLOCK succeed
\* (a call that is not reached after an earlier failure has no outcome to
\* choose: it is left at TRUE).
Envs ==
    {e \in [open : BOOLEAN, dtr : BOOLEAN, set : BOOLEAN, nb : BOOLEAN] :
        /\ ~e.open => e.dtr /\ e.set /\ e.nb
        /\ ~e.set => e.nb}

\* Configure with the failure of the DTR raise returned to the caller
ConfigureDtrFatal(k, fd, t, env) ==
    LET d  == SysModem(k, fd, "TIOCMBIS", TIOCM_DTR, env.dtr)
        c1 == <<Call("TIOCMBIS", fd, TIOCM_DTR, d.err = NoErr)>>
        s  == SysTcsets2(d.k, fd, t, env.set)
        c2 == Append(c1, Call("TCSETS2", fd, {}, s.err = NoErr))
        n  == SysSetNonblock(s.k, fd, FALSE, env.nb)
        c3 == Append(c2, Call("SetNonblock", fd, {}, n.err = NoErr))
    IN  IF d.err # NoErr
        THEN [k |-> d.k, err |-> d.err, calls |-> c1]
        ELSE IF s.err # NoErr
        THEN [k |-> s.k, err |-> s.err, calls |-> c2]
        ELSE [k |-> n.k, err |-> n.err, calls |-> c3]

\* Configure with the DTR raise made after the attribute apply, when that
\* succeeded
ConfigureApplyFirst(k, fd, t, env) ==
    LET s  == SysTcsets2(k, fd, t, env.set)
        c1 == <<Call("TCSETS2", fd, {}, s.err = NoErr)>>
        d  == SysModem(s.k, fd, "TIOCMBIS", TIOCM_DTR, env.dtr)
        c2 == Append(c1, Call("TIOCMBIS", fd, TIOCM_DTR, d.err = NoErr))
        n  == SysSetNonblock(d.k, fd, FALSE, env.nb)
        c3 == Append(c2, Call("SetNonblock", fd, {}, n.err = NoErr))
    IN  IF s.err # NoErr
        THEN [k |-> s.k, err |-> s.err, calls |-> c1]
        ELSE [k |-> n.k, err |-> n.err, calls |-> c3]

\* Configure with the errno of TCSETS2 dropped like that of the DTR raise
ConfigureIgnoreApply(k, fd, t, env) ==
    LET d  == SysModem(k, fd, "TIOCMBIS", TIOCM_DTR, env.dtr)
        c1 == <<Call("TIOCMBIS", fd, TIOCM_DTR, d.err = NoErr)>>
        s  == SysTcsets2(d.k, fd, t, env.set)
        c2 == Append(c1, Call("TCSETS2", fd, {}, s.err = NoErr))
        n  == SysSetNonblock(s.k, fd, FALSE, env.nb)
        c3 == Append(c2, Call("SetNonblock", fd, {}, n.err = NoErr))
    IN  [k |-> n.k, err |-> n.err, calls |-> c3]

\* The device-control part of openPort, on the descriptor fd with the
\* attributes t: raise DTR (result dropped), TCSETS2 (errno returned),
\* SetNonblock(fd, false) (error returned).
Configure(k, fd, t, env) ==
    LET d  == SysModem(k, fd, "TIOCMBIS", TIOCM_DTR, env.dtr)
        c1 == <<Call("TIOCMBIS", fd, TIOCM_DTR, d.err = NoErr)>>
        s  == SysTcsets2(d.k, fd, t, env.set)
        c2 == Append(c1, Call("TCSETS2", fd, {}, s.err = NoErr))
        n  == SysSetNonblock(s.k, fd, FALSE, env.nb)
        c3 == Append(c2, Call("SetNonblock", fd, {}, n.err = NoErr))
    IN  IF s.err # NoErr
        THEN [k |-> s.k, err |-> s.err, calls |-> c2]
        ELSE [k |-> n.k, err |-> n.err, calls |-> c3]

\* The body of openPort up to its return statement: k is the kernel state
\* it leaves, f the descriptor of the file it opened (-1: none), p the
\* descriptor of the Port it returns (-1: nil), attrs the attributes it
\* handed to TCSETS2, if it got that far.
OpenBody(k0, name, baud, databits, parity, stopbits, readTimeout, env) ==
    LET o == SysOpen(k0, name, OpenFlags, env.open)
        opened == <<Call("open", o.fd, OpenFlags, o.err = NoErr)>>
    IN  IF o.err # NoErr
        THEN [k |-> o.k, f |-> -1, p |-> -1, err |-> o.err,
              calls |-> opened, attrs |-> <<>>]
        ELSE LET c == BuildCflag(databits, parity, stopbits)
             IN  IF c.err # NoErr
                 THEN [k |-> o.k, f |-> o.fd, p |-> -1, err |-> c.err,
                       calls |-> opened, attrs |-> <<>>]
                 ELSE LET fd == o.fd
                          tv == posixTimeoutValues(readTimeout)
                          t  == BuildTermios(c.cflag, baud, tv[1], tv[2])
                          g  == Configure(o.k, fd, t, env)
                      IN  [k |-> g.k, f |-> o.fd,
                           p |-> IF g.err = NoErr THEN o.fd ELSE -1,
                           err |-> g.err,
                           calls |-> opened \o g.calls, attrs |-> <<t>>]

\* the deferred function left out: nothing is closed on an error
DeferredCloseNone(r) == r

\* defer func() { if err != nil && f != nil { f.Close() } }()
DeferredClose(r) ==
    IF r.err # NoErr /\ r.f # -1
    THEN [r EXCEPT !.k = SysClose(r.k, r.f).k,
                   !.calls = Append(@, Call("close", r.f, {}, TRUE))]
    ELSE r

NoCfg == [baud |-> Limbs(0, 0), databits |-> 0, parity |-> "", stopbits |-> 0,
          readTimeout |-> 0]

\* no method in flight
NoOp == [op |-> "", h |-> 0, fd |-> 0, dev |-> "", arg |-> 0]

\* no call
NoCall == [op |-> "", h |-> 0, arg |-> 0, err |-> NoErr]

\* The record of a call: the operation, the device path (openPort) or the
\* handle it was made on, its argument, the error and value it returned
\* (ret: a status word, n: a byte count), the system calls it issued in
\* order, the number of open descriptors before it and, for a status query,
\* the SetDTR or SetRTS call it came right after.
Record(op, name, h, args, arg, err, ret, calls, attrs) ==
    [op |-> op, name |-> name, h |-> h, cfg |-> args, arg |-> arg, err |-> err,
     ret |-> ret, n |-> 0, calls |-> calls, attrs |-> attrs,
     openBefore |-> NumOpen(fdtab), after |-> NoCall]

openPort(name, baud, databits, parity, stopbits, readTimeout) ==
    /\ Len(ports) < MaxPorts
    /\ \E env \in Envs :
         LET r == DeferredClose(OpenBody([fdtab |-> fdtab, dev |-> dev], name,
                                         baud, databits, parity, stopbits,
                                         readTimeout, env))
             args == [baud |-> baud, databits |-> databits, parity |-> parity,
                      stopbits |-> stopbits, readTimeout |-> readTimeout]
         IN  /\ fdtab' = r.k.fdtab
             /\ dev' = r.k.dev
             /\ ports' = IF r.err = NoErr THEN Append(ports, [f |-> r.p])
                                          ELSE ports
             /\ last' = Record("openPort", name,
                               IF r.err = NoErr THEN Len(ports) + 1 ELSE 0,
                               args, 0, r.err, {}, r.calls, r.attrs)
             /\ UNCHANGED <<cfg, inflight>>

\* ------------------------------------------------------------------- Port

Handles == 1..Len(ports)

\* Close on a file that does not remember that it was closed
CloseAgain(h) ==
    LET fd == ports[h].f
        c  == SysClose([fdtab |-> fdtab, dev |-> dev], fd)
    IN  /\ fdtab' = c.k.fdtab
        /\ dev' = c.k.dev
        /\ ports' = ports
        /\ last' = Record("Close", "", h, NoCfg, 0, c.err, {},
                          <<Call("close", fd, {}, c.err = NoErr)>>, <<>>)
        /\ UNCHANGED <<cfg, inflight>>

\* func (p *Port) Close() error { return p.f.Close() }
\* Closing a file that is already closed is an error and releases nothing.
Close(h) ==
    LET fd == ports[h].f
        k  == [fdtab |-> fdtab, dev |-> dev]
    IN  IF fd = -1
        THEN /\ last' = Record("Close", "", h, NoCfg, 0, "ErrClosed", {},
                               <<>>, <<>>)
             /\ UNCHANGED <<fdtab, dev, ports, cfg, inflight>>
        ELSE LET c == SysClose(k, fd)
             IN  /\ fdtab' = c.k.fdtab
                 /\ dev' = c.k.dev
                 /\ ports' = [ports EXCEPT ![h].f = -1]
                 /\ last' = Record("Close", "", h, NoCfg, 0, c.err, {},
                                   <<Call("close", fd, {}, c.err = NoErr)>>, <<>>)
                 /\ UNCHANGED <<cfg, inflight>>

\* Fd that still answers with a descriptor number, the lowest one, once the
\* file is closed
FdAfterClose(h) == IF ports[h].f = -1 THEN 1 ELSE ports[h].f

\* p.f.Fd(): the descriptor of the handle's file, -1 once it is closed
Fd(h) == ports[h].f

\* func (p *Port) GetStatus() (n uint, err error)
GetStatus(h) ==
    \E ok \in BOOLEAN :
        LET fd == Fd(h)
            r  == SysModemGet([fdtab |-> fdtab, dev |-> dev], fd, ok)
        IN  /\ last' = [Record("GetStatus", "", h, NoCfg, 0, r.err, r.status,
                               <<Call("TIOCMGET", fd, {}, r.err = NoErr)>>,
                               <<>>)
                          EXCEPT !.after =
                             IF last.op \in {"SetDTR", "SetRTS"}
                             THEN [op |-> last.op, h |-> last.h,
                                   arg |-> last.arg, err |-> last.err]
                             ELSE NoCall]
            /\ UNCHANGED <<fdtab, dev, ports, cfg, inflight>>

\* SetDTR with the mask of the RTS line
SetDTRWrongMask(h, v) ==
    \E ok \in BOOLEAN :
        LET req == IF 0 = v THEN "TIOCMBIC" ELSE "TIOCMBIS"
            fd  == Fd(h)
            r   == SysModem([fdtab |-> fdtab, dev |-> dev], fd, req, TIOCM_RTS, ok)
        IN  /\ dev' = r.k.dev
            /\ last' = Record("SetDTR", "", h, NoCfg, v, r.err, {},
                              <<Call(req, fd, TIOCM_RTS, r.err = NoErr)>>, <<>>)
            /\ UNCHANGED <<fdtab, ports, cfg, inflight>>

\* func (p *Port) SetDTR(v byte) (err error)
SetDTR(h, v) ==
    \E ok \in BOOLEAN :
        LET req == IF 0 = v THEN "TIOCMBIC" ELSE "TIOCMBIS"
            fd  == Fd(h)
            r   == SysModem([fdtab |-> fdtab, dev |-> dev], fd, req, TIOCM_DTR, ok)
        IN  /\ dev' = r.k.dev
            /\ last' = Record("SetDTR", "", h, NoCfg, v, r.err, {},
                              <<Call(req, fd, TIOCM_DTR, r.err = NoErr)>>, <<>>)
            /\ UNCHANGED <<fdtab, ports, cfg, inflight>>

\* SetRTS with a mask holding both the RTS and the DTR bit
SetRTSBothLines(h, v) ==
    \E ok \in BOOLEAN :
        LET req == IF 0 = v THEN "TIOCMBIC" ELSE "TIOCMBIS"
            fd  == Fd(h)
            m   == BitOr(TIOCM_RTS, TIOCM_DTR)
            r   == SysModem([fdtab |-> fdtab, dev |-> dev], fd, req, m, ok)
        IN  /\ dev' = r.k.dev
            /\ last' = Record("SetRTS", "", h, NoCfg, v, r.err, {},
                              <<Call(req, fd, TIOCM_RTS, r.err = NoErr)>>, <<>>)
            /\ UNCHANGED <<fdtab, ports, cfg, inflight>>

\* func (p *Port) SetRTS(v byte) (err error)
SetRTS(h, v) ==
    \E ok \in BOOLEAN :
        LET req == IF 0 = v THEN "TIOCMBIC" ELSE "TIOCMBIS"
            fd  == Fd(h)
            r   == SysModem([fdtab |-> fdtab, dev |-> dev], fd, req, TIOCM_RTS, ok)
        IN  /\ dev' = r.k.dev
            /\ last' = Record("SetRTS", "", h, NoCfg, v, r.err, {},
                              <<Call(req, fd, TIOCM_RTS, r.err = NoErr)>>, <<>>)
            /\ UNCHANGED <<fdtab, ports, cfg, inflight>>

\* the file of the handle h has been closed
Closed(h) == ports[h].f = -1

\* func (p *Port) Read(b []byte) (n int, err error), with len(b) = len.
\* A closed file refuses without a system call. With VMIN = 1 the read
\* waits for a byte (the call does not return while the input queue is
\* empty); with VMIN = 0 it returns when the timer runs out, and os.File
\* reports a read of zero bytes as io.EOF.
Read(h, len) ==
    \E ok \in BOOLEAN :
        LET fd == ports[h].f
            k  == [fdtab |-> fdtab, dev |-> dev]
        IN  IF Closed(h)
            THEN /\ ok
                 /\ last' = Record("Read", "", h, NoCfg, len, "ErrClosed", {},
                                   <<>>, <<>>)
                 /\ UNCHANGED <<fdtab, dev, ports, cfg, inflight>>
            ELSE LET d == fdtab[fd].dev
                     r == SysRead(k, fd, len, ok)
                     eof == r.err = NoErr /\ r.n = 0 /\ len > 0
                 IN  /\ ~(ok /\ len > 0 /\ ~dev[d].inq
                            /\ dev[d].termios[1].Cc[VMIN] > 0)
                     /\ dev' = r.k.dev
                     /\ last' = [Record("Read", "", h, NoCfg, len,
                                        IF eof THEN "EOF" ELSE r.err, {},
                                        <<CallN("read", fd, len, r.err = NoErr)>>,
                                        <<>>)
                                   EXCEPT !.n = r.n]
                     /\ UNCHANGED <<fdtab, ports, cfg, inflight>>

\* func (p *Port) Write(b []byte) (n int, err error), with len(b) = len
Write(h, len) ==
    \E ok \in BOOLEAN :
        LET fd == ports[h].f
            k  == [fdtab |-> fdtab, dev |-> dev]
        IN  IF Closed(h)
            THEN /\ ok
                 /\ last' = Record("Write", "", h, NoCfg, len, "ErrClosed", {},
                                   <<>>, <<>>)
                 /\ UNCHANGED <<fdtab, dev, ports, cfg, inflight>>
            ELSE LET r == SysWrite(k, fd, len, ok)
                 IN  /\ dev' = r.k.dev
                     /\ last' = [Record("Write", "", h, NoCfg, len, r.err, {},
                                        <<CallN("write", fd, len, r.err = NoErr)>>,
                                        <<>>)
                                   EXCEPT !.n = r.n]
                     /\ UNCHANGED <<fdtab, ports, cfg, inflight>>

\* func (p *Port) Flush() error
Flush(h) ==
    \E ok \in IF Closed(h) THEN {TRUE} ELSE BOOLEAN :
        LET fd == Fd(h)
            r  == SysFlush([fdtab |-> fdtab, dev |-> dev], fd, ok)
        IN  /\ dev' = r.k.dev
            /\ last' = Record("Flush", "", h, NoCfg, 0, r.err, {},
                              <<Call("TCFLSH", fd, TCIOFLUSH, r.err = NoErr)>>,
                              <<>>)
            /\ UNCHANGED <<fdtab, ports, cfg, inflight>>

\* d.Milliseconds(), d counted in microseconds: the division truncates
Milliseconds(d) == d \div 1000

\* func (p *Port) SendBreak(d time.Duration) error
SendBreak(h, d) ==
    \E ok \in IF Closed(h) THEN {TRUE} ELSE BOOLEAN :
        LET fd  == Fd(h)
            arg == Milliseconds(d)
            r   == SysBreak([fdtab |-> fdtab, dev |-> dev], fd, arg, ok)
        IN  /\ dev' = r.k.dev
            /\ last' = Record("SendBreak", "", h, NoCfg, d, r.err, {},
                              <<CallN("TCSBRK", fd, arg, r.err = NoErr)>>, <<>>)
            /\ UNCHANGED <<fdtab, ports, cfg, inflight>>

\* The line: a byte arrives in the input queue of the device d.
Receive(d) ==
    /\ ~dev[d].inq
    /\ dev' = [dev EXCEPT ![d].inq = TRUE]
    /\ last' = Record("receive", d, 0, NoCfg, 0, NoErr, {}, <<>>, <<>>)
    /\ UNCHANGED <<fdtab, ports, cfg, inflight>>

\* The line: the device d has sent what was in its output queue.
Transmit(d) ==
    /\ dev[d].outq
    /\ dev' = [dev EXCEPT ![d].outq = FALSE]
    /\ last' = Record("transmit", d, 0, NoCfg, 0, NoErr, {}, <<>>, <<>>)
    /\ UNCHANGED <<fdtab, ports, cfg, inflight>>

\* A device-control method run by a second goroutine takes two steps, as
\* the arguments of unix.Syscall are evaluated before the call is made:
\* first p.f.Fd() gives the descriptor number of the handle's file (the
\* device it is open on at that moment is noted beside it), then the ioctl
\* is made on that number. Nothing keeps the file open between the two.
FdRead(h, op, arg) ==
    /\ inflight = NoOp
    /\ inflight' = [op |-> op, h |-> h, fd |-> Fd(h),
                    dev |-> IF Closed(h) THEN "" ELSE fdtab[Fd(h)].dev,
                    arg |-> arg]
    /\ UNCHANGED <<fdtab, dev, ports, last, cfg>>

\* the ioctl of the method in flight, on the descriptor number it read
Ioctl ==
    /\ inflight # NoOp
    /\ \E ok \in BOOLEAN :
         LET k   == [fdtab |-> fdtab, dev |-> dev]
             fd  == inflight.fd
             arg == inflight.arg
             req == IF 0 = arg THEN "TIOCMBIC" ELSE "TIOCMBIS"
             r   == CASE inflight.op = "Flush" -> SysFlush(k, fd, ok)
                      [] inflight.op = "SendBreak" ->
                            SysBreak(k, fd, Milliseconds(arg), ok)
                      [] inflight.op = "GetStatus" ->
                            [k |-> k, err |-> SysModemGet(k, fd, ok).err]
                      [] inflight.op = "SetDTR" ->
                            SysModem(k, fd, req, TIOCM_DTR, ok)
                      [] inflight.op = "SetRTS" ->
                            SysModem(k, fd, req, TIOCM_RTS, ok)
             c   == CASE inflight.op = "Flush" ->
                            Call("TCFLSH", fd, TCIOFLUSH, r.err = NoErr)
                      [] inflight.op = "SendBreak" ->
                            CallN("TCSBRK", fd, Milliseconds(arg), r.err = NoErr)
                      [] inflight.op = "GetStatus" ->
                            Call("TIOCMGET", fd, {}, r.err = NoErr)
                      [] inflight.op = "SetDTR" ->
                            Call(req, fd, TIOCM_DTR, r.err = NoErr)
                      [] inflight.op = "SetRTS" ->
                            Call(req, fd, TIOCM_RTS, r.err = NoErr)
         IN  /\ dev' = r.k.dev
             /\ last' = Record(inflight.op, "", inflight.h, NoCfg, arg, r.err,
                               IF inflight.op = "GetStatus"
                               THEN SysModemGet(k, fd, ok).status ELSE {},
                               <<c>>, <<>>)
             /\ inflight' = NoOp
             /\ UNCHANGED <<fdtab, ports, cfg>>

\* --------------------------------------------------------- specifications

Bauds == {Limbs(9600, 0), Limbs(53392, 3), <<9600, 0, 1, 0>>}
DataBits == 4..9
Parities == {ParityNone, ParityOdd, ParityEven, ParityMark, ParitySpace}
StopBitsValues == {0, Stop1, Stop2, 3, Stop1_5}

\* The configurations openPort is called with: every combination of data
\* bits, parity and the three declared stop-bits values with one speed and
\* timeout; the undeclared stop-bits values 0 and 3 with 8 data bits; and
\* every speed and timeout with 8N1 (the three switches read neither the
\* speed nor the timeout; the speed and the timeout fields read none of the
\* three).
Configs ==
    {c \in [baud : Bauds, databits : DataBits, parity : Parities,
            stopbits : StopBitsValues, readTimeout : Durations] :
        \/ /\ c.baud = Limbs(9600, 0) /\ c.readTimeout = 0
           /\ c.stopbits \in {Stop1, Stop1_5, Stop2} \/ c.databits = 8
        \/ c.databits = 8 /\ c.parity = ParityNone /\ c.stopbits = Stop1}

\* Nothing is open, no handle exists, no device was configured, every
\* modem line is low, the queues are empty and no break was asked for.
InitSystem ==
    /\ fdtab = [n \in Fds |-> FreeFd]
    /\ dev = [d \in Devs |-> [lines |-> {}, termios |-> <<>>,
                              inq |-> FALSE, outq |-> FALSE, brk |-> <<>>]]
    /\ ports = <<>>
    /\ last = [op |-> "", name |-> "", h |-> 0, cfg |-> NoCfg, arg |-> 0,
               err |-> NoErr, ret |-> {}, n |-> 0, calls |-> <<>>,
               attrs |-> <<>>, openBefore |-> 0, after |-> NoCall]
    /\ inflight = NoOp

Init ==
    /\ InitSystem
    /\ cfg \in Configs

\* A second configuration ports are opened with: 115200 7E2, reads timing
\* out after 1s.
OtherCfg == [baud |-> Limbs(49664, 1), databits |-> 7, parity |-> ParityEven,
             stopbits |-> Stop2, readTimeout |-> 1000000]

OpenAny(names, cfgs) ==
    \E name \in names, c \in cfgs :
        openPort(name, c.baud, c.databits, c.parity, c.stopbits, c.readTimeout)

CloseAny == \E h \in Handles : Close(h)

\* Spec: ports are opened on one device, with the caller's configuration
\* (any of Configs) or with the second one, and closed.
Next ==
    \/ OpenAny({"ttyUSB0"}, {cfg, OtherCfg})
    \/ CloseAny

Spec == Init /\ [][Next]_vars

\* the values of a byte argument tried: zero and a non-zero one (the code
\* only compares the byte with 0)
Bytes == {0, 1}

\* SpecOps: ports are opened on both devices with 9600 8N1, their modem
\* lines are driven and read, and they are closed.
InitOps ==
    /\ InitSystem
    /\ cfg = [baud |-> Limbs(9600, 0), databits |-> 8, parity |-> ParityNone,
              stopbits |-> Stop1, readTimeout |-> 0]

SetDTRAny == \E h \in Handles, v \in Bytes : SetDTR(h, v)

SetRTSAny == \E h \in Handles, v \in Bytes : SetRTS(h, v)

GetStatusAny == \E h \in Handles : GetStatus(h)

NextOps ==
    \/ OpenAny(Devs, {cfg})
    \/ CloseAny
    \/ SetDTRAny
    \/ SetRTSAny
    \/ GetStatusAny

SpecOps == InitOps /\ [][NextOps]_vars

\* the lengths of the buffers tried
Lens == {0, 1}

\* the break durations tried, in microseconds: none, just below and at one
\* millisecond
BreakDurations == {0, 999, 1000}

\* SpecIO: ports are opened on one device with 9600 8N1 and a read timeout
\* of 150ms, read, written, flushed, sent breaks, their modem lines driven
\* and read, and closed, while the line delivers and takes bytes.
InitIO ==
    /\ InitSystem
    /\ cfg = [baud |-> Limbs(9600, 0), databits |-> 8, parity |-> ParityNone,
              stopbits |-> Stop1, readTimeout |-> 150000]

ReadAny == \E h \in Handles, len \in Lens : Read(h, len)

WriteAny == \E h \in Handles, len \in Lens : Write(h, len)

FlushAny == \E h \in Handles : Flush(h)

SendBreakAny == \E h \in Handles, d \in BreakDurations : SendBreak(h, d)

ReceiveAny == \E d \in {"ttyUSB0"} : Receive(d)

TransmitAny == \E d \in {"ttyUSB0"} : Transmit(d)

NextIO ==
    \/ OpenAny({"ttyUSB0"}, {cfg})
    \/ CloseAny
    \/ ReadAny
    \/ WriteAny
    \/ FlushAny
    \/ SendBreakAny
    \/ SetDTRAny
    \/ SetRTSAny
    \/ GetStatusAny
    \/ ReceiveAny
    \/ TransmitAny

SpecIO == InitIO /\ [][NextIO]_vars

\* SpecRace: one goroutine opens ports on both devices with 9600 8N1 and
\* closes them, while a second one runs device-control methods on the
\* handles, its reading of the descriptor and its ioctl interleaved with
\* the calls of the first.
FdReadAny ==
    \E h \in Handles :
        \/ FdRead(h, "Flush", 0)
        \/ FdRead(h, "GetStatus", 0)
        \/ FdRead(h, "SendBreak", 1000)
        \/ \E v \in Bytes : FdRead(h, "SetDTR", v)
        \/ \E v \in Bytes : FdRead(h, "SetRTS", v)

NextRace ==
    \/ OpenAny(Devs, {cfg})
    \/ CloseAny
    \/ FdReadAny
    \/ Ioctl

SpecRace == InitOps /\ [][NextRace]_vars

\* ----------------------------------------------------------------- claims

\* the configuration of a call is within the supported set
ValidCfg(c) ==
    /\ c.databits \in {5, 6, 7, 8}
    /\ c.stopbits \in {Stop1, Stop2}
    /\ c.parity \in {ParityNone, ParityOdd, ParityEven, ParityMark}

\* the last call was openPort
Opened == last.op = "openPort"

\* the names of the system calls of the last call, in order
CallNames == [i \in 1..Len(last.calls) |-> last.calls[i].call]

\* the last call issued the system call c
Issued(c) == \E i \in 1..Len(last.calls) : last.calls[i].call = c

\* the last call issued the system call c and it failed
Failed(c) ==
    \E i \in 1..Len(last.calls) : last.calls[i].call = c /\ ~last.calls[i].ok

\* C1: when openPort returns an error after the device node was opened, the
\* descriptor it opened is closed again when it returns and no handle is
\* returned; after any failed open as many descriptors are open as before.
C1_NoDescriptorLeak ==
    (Opened /\ last.err # NoErr) =>
        /\ last.h = 0
        /\ NumOpen(fdtab) = last.openBefore
        /\ last.calls[1].call = "open"
        /\ last.calls[1].ok =>
              LET fd == last.calls[1].fd
              IN  /\ last.calls[Len(last.calls)] = Call("close", fd, {}, TRUE)
                  /\ ~fdtab[fd].open
                  /\ \A h \in Handles : ports[h].f # fd

\* C1 witness: the attribute apply failed while another handle was open.
C1_Witness ==
    /\ Opened /\ Failed("TCSETS2")
    /\ last.openBefore = 1
    /\ \E h \in Handles : ports[h].f # -1

\* C2 as stated: a request with an unsupported data bits, stop bits or parity
\* value is refused without the device node ever being opened.
C2_RejectedBeforeOpen ==
    (Opened /\ ~ValidCfg(last.cfg)) => ~Issued("open")

\* C2 as amended: such a request is refused with a configuration error before
\* any device-control call; the device node is opened first, and the only
\* other call of the attempt closes the descriptor that open returned.
C2_RejectedBeforeControl ==
    (Opened /\ ~ValidCfg(last.cfg)) =>
        /\ last.h = 0
        /\ last.calls[1].call = "open"
        /\ IF last.calls[1].ok
           THEN /\ last.err \in {ErrBadSize, ErrBadStopBits, ErrBadParity}
                /\ CallNames = <<"open", "close">>
                /\ last.calls[2].fd = last.calls[1].fd
           ELSE /\ last.err = "ENOENT"
                /\ CallNames = <<"open">>

\* C2 witness: 9 data bits were refused after the device node was opened.
C2_Witness ==
    /\ Opened /\ last.cfg.databits = 9
    /\ last.err = ErrBadSize
    /\ last.calls[1].ok

\* C3: an open attempt with an invalid stop-bits, data-bits or parity value
\* issues no ioctl: neither the DTR raise nor the attribute apply.
C3_NoIoctlOnInvalid ==
    (Opened /\ ~ValidCfg(last.cfg)) =>
        /\ ~Issued("TIOCMBIS")
        /\ ~Issued("TCSETS2")
        /\ last.attrs = <<>>

\* C3 witness: 1.5 stop bits were asked of a device node that opened.
C3_Witness ==
    /\ Opened /\ last.cfg.stopbits = Stop1_5
    /\ last.cfg.databits = 8 /\ last.cfg.parity = ParityNone
    /\ last.calls[1].ok
    /\ last.err = ErrBadStopBits

\* C4: the first Close of a handle releases its descriptor; every later Close
\* of it returns an error and releases nothing; a closed handle stays closed.
C4_CloseOnce ==
    [][ /\ \A h \in Handles : ports[h].f = -1 => ports'[h].f = -1
        /\ \A h \in Handles' \ Handles : ports'[h].f # -1
        /\ (last'.op = "Close") =>
              LET h == last'.h
                  fd == ports[h].f
              IN  IF fd # -1
                  THEN /\ last'.err = NoErr
                       /\ fdtab[fd].open /\ ~fdtab'[fd].open
                       /\ NumOpen(fdtab') = NumOpen(fdtab) - 1
                       /\ ports'[h].f = -1
                  ELSE /\ last'.err # NoErr
                       /\ last'.calls = <<>>
                       /\ fdtab' = fdtab /\ dev' = dev /\ ports' = ports
      ]_vars

\* C4 witness: a second Close of a handle was refused while the descriptor
\* number the handle once had belongs to another open handle.
C4_Witness ==
    /\ last.op = "Close" /\ last.err # NoErr
    /\ ports[last.h].f = -1
    /\ \E h \in Handles : ports[h].f = 1
    /\ last.h = 1

\* the device the open handle h is on
DevOf(h) == fdtab[ports[h].f].dev

\* C5: a successful SetDTR on an open handle sets the DTR line for a non-zero
\* argument and clears it for 0, and leaves the RTS line as it was; a
\* successful GetStatus returns the lines of the handle's device unchanged,
\* so coming after a successful SetDTR on the handle it shows DTR as set by
\* that call and RTS as before it.
C5_SetDTRThenStatus ==
    [][ /\ (last'.op = "SetDTR" /\ last'.err = NoErr) =>
              LET d == DevOf(last'.h)
              IN  /\ BitAnd(dev'[d].lines, TIOCM_DTR) =
                        IF last'.arg # 0 THEN TIOCM_DTR ELSE {}
                  /\ BitAnd(dev'[d].lines, TIOCM_RTS) =
                        BitAnd(dev[d].lines, TIOCM_RTS)
        /\ (last'.op = "GetStatus" /\ last'.err = NoErr) =>
              /\ dev' = dev
              /\ last'.ret = dev[DevOf(last'.h)].lines
              /\ (last.op = "SetDTR" /\ last.err = NoErr /\ last.h = last'.h) =>
                    BitAnd(last'.ret, TIOCM_DTR) =
                       IF last.arg # 0 THEN TIOCM_DTR ELSE {}
      ]_vars

\* C5 witness: GetStatus, coming after a successful SetDTR(0) on the same
\* handle, returned RTS set and DTR clear.
C5_Witness ==
    /\ last.op = "GetStatus" /\ last.err = NoErr
    /\ last.after.op = "SetDTR" /\ last.after.err = NoErr
    /\ last.after.h = last.h /\ last.after.arg = 0
    /\ last.ret = TIOCM_RTS

\* the attributes the last call handed to TCSETS2
Attrs == last.attrs[1]

\* the character-size field of the control flags
CSIZE == BitOr(BitOr(CS5, CS6), BitOr(CS7, CS8))

\* C6: for data bits 5, 6, 7, 8 the control flags built carry the character
\* size CS5, CS6, CS7, CS8 and no other; any other value makes openPort fail
\* with ErrBadSize with no attributes applied.
C6_CharacterSize ==
    (Opened /\ last.calls[1].ok) =>
        IF last.cfg.databits \in {5, 6, 7, 8}
        THEN /\ last.err # ErrBadSize
             /\ last.attrs # <<>> =>
                   BitAnd(Attrs.Cflag, CSIZE) =
                      CASE last.cfg.databits = 5 -> CS5
                        [] last.cfg.databits = 6 -> CS6
                        [] last.cfg.databits = 7 -> CS7
                        [] last.cfg.databits = 8 -> CS8
        ELSE /\ last.err = ErrBadSize
             /\ last.attrs = <<>>
             /\ ~Issued("TCSETS2")

\* C6 witness: attributes for 6 data bits were applied.
C6_Witness ==
    /\ Opened /\ last.cfg.databits = 6
    /\ last.attrs # <<>>
    /\ Issued("TCSETS2") /\ ~Failed("TCSETS2")

\* the parity bits of the control flags
ParityMask == BitOr(BitOr(PARENB, PARODD), CMSPAR)

\* the parity a set of control flags stands for ("?" for none of the four)
DecodeParity(cflag) ==
    LET enabled == BitAnd(cflag, PARENB) # {}
        odd == BitAnd(cflag, PARODD) # {}
        stick == BitAnd(cflag, CMSPAR) # {}
    IN  CASE ~enabled /\ ~odd /\ ~stick -> ParityNone
          [] enabled /\ odd /\ ~stick -> ParityOdd
          [] enabled /\ ~odd /\ ~stick -> ParityEven
          [] enabled /\ odd /\ stick -> ParityMark
          [] OTHER -> "?"

\* C7: the parity flags built are those of the table (None: none; Odd:
\* PARENB and PARODD; Even: PARENB; Mark: PARENB, CMSPAR and PARODD), decoding
\* them gives the parity back, and any other parity value is refused with
\* ErrBadParity once the data bits and stop bits have passed.
C7_ParityTable ==
    (Opened /\ last.calls[1].ok
        /\ last.cfg.databits \in {5, 6, 7, 8}
        /\ last.cfg.stopbits \in {Stop1, Stop2}) =>
        IF last.cfg.parity \in {ParityNone, ParityOdd, ParityEven, ParityMark}
        THEN /\ last.attrs # <<>>
             /\ BitAnd(Attrs.Cflag, ParityMask) =
                   CASE last.cfg.parity = ParityNone -> {}
                     [] last.cfg.parity = ParityOdd -> PARENB \cup PARODD
                     [] last.cfg.parity = ParityEven -> PARENB
                     [] last.cfg.parity = ParityMark ->
                           PARENB \cup CMSPAR \cup PARODD
             /\ DecodeParity(Attrs.Cflag) = last.cfg.parity
        ELSE /\ last.err = ErrBadParity
             /\ last.attrs = <<>>

\* C7 witness: attributes for mark parity were applied.
C7_Witness ==
    /\ Opened /\ last.cfg.parity = ParityMark
    /\ last.attrs # <<>>
    /\ Issued("TCSETS2") /\ ~Failed("TCSETS2")

\* deciseconds of a duration d > 0: d / 100ms rounded, kept within 1..255
Deciseconds(d) ==
    LET r == IF d % 100000 >= 50000 THEN d \div 100000 + 1 ELSE d \div 100000
    IN  IF r < 1 THEN 1 ELSE IF r > 255 THEN 255 ELSE r

\* C8: the timeout translator gives (1, 0) for 0 and (0, round(d / 100ms)
\* within 1..255) for d > 0: 50ms -> 1, 1s -> 10, 30s -> 255, 1ms -> 1; and
\* openPort stores the pair in the VMIN and VTIME slots of the attributes.
C8_Timeout ==
    /\ posixTimeoutValues(0) = <<1, 0>>
    /\ posixTimeoutValues(50000) = <<0, 1>>
    /\ posixTimeoutValues(1000000) = <<0, 10>>
    /\ posixTimeoutValues(30000000) = <<0, 255>>
    /\ posixTimeoutValues(1000) = <<0, 1>>
    /\ \A d \in Durations \ {0} :
          posixTimeoutValues(d) = <<0, Deciseconds(d)>>
    /\ (Opened /\ last.attrs # <<>>) =>
          LET d == last.cfg.readTimeout
          IN  /\ Attrs.Cc[VMIN] = IF d = 0 THEN 1 ELSE 0
              /\ Attrs.Cc[VTIME] = IF d = 0 THEN 0 ELSE Deciseconds(d)
              /\ \A i \in DOMAIN Attrs.Cc \ {VMIN, VTIME} : Attrs.Cc[i] = 0

\* C8 witness: a port was opened with a read timeout of 30s.
C8_Witness ==
    /\ Opened /\ last.cfg.readTimeout = 30000000
    /\ last.err = NoErr
    /\ dev[last.name].termios = last.attrs
    /\ Attrs.Cc[VTIME] = 255

\* what every attribute set has: receiver enabled, modem control lines
\* ignored, hang-up on the last close; only IGNPAR among the input flags; no
\* local flag (no canonical mode, no echo, no signals), no output flag
RawAttrs(t) ==
    /\ BitAnd(t.Cflag, CREAD) = CREAD
    /\ BitAnd(t.Cflag, CLOCAL) = CLOCAL
    /\ BitAnd(t.Cflag, HUPCL) = HUPCL
    /\ t.Iflag = IGNPAR
    /\ t.Lflag = {}
    /\ t.Oflag = {}

\* C9: every attribute set openPort applies to a device has CREAD, CLOCAL and
\* HUPCL among its control flags, input flags equal to IGNPAR, and no local
\* flag set.
C9_RawMode ==
    /\ (Opened /\ last.attrs # <<>>) => RawAttrs(Attrs)
    /\ \A d \in Devs : dev[d].termios # <<>> => RawAttrs(dev[d].termios[1])

\* C9 witness: attributes with odd parity and two stop bits are in force on
\* a device.
C9_Witness ==
    /\ Opened /\ last.err = NoErr
    /\ last.cfg.parity = ParityOdd /\ last.cfg.stopbits = Stop2
    /\ dev[last.name].termios = last.attrs

\* C10: a handle is returned only after the device node was opened
\* non-blocking, then the attributes were applied, then O_NONBLOCK was
\* cleared, all with success; the handle returned owns an open descriptor in
\* blocking mode on the device, which has the built attributes; every open
\* handle's descriptor is in blocking mode; a failed apply or a failed clear
\* never gives a handle.
C10_OpenSequence ==
    /\ (Opened /\ last.h # 0) =>
          LET fd == ports[last.h].f
          IN  /\ CallNames = <<"open", "TIOCMBIS", "TCSETS2", "SetNonblock">>
              /\ \A i \in 1..4 : last.calls[i].fd = fd
              /\ last.calls[1].ok /\ last.calls[3].ok /\ last.calls[4].ok
              /\ BitAnd(last.calls[1].arg, O_NONBLOCK) # {}
              /\ fd \in Fds /\ fdtab[fd].open /\ fdtab[fd].dev = last.name
              /\ ~fdtab[fd].nonblock
              /\ last.attrs # <<>> /\ dev[last.name].termios = last.attrs
              /\ last.err = NoErr
    /\ (Opened /\ (Failed("TCSETS2") \/ Failed("SetNonblock"))) =>
          /\ last.h = 0
          /\ last.err # NoErr
    /\ Opened => (last.h # 0 <=> last.err = NoErr)
    /\ \A h \in Handles :
          ports[h].f # -1 => fdtab[ports[h].f].open /\ ~fdtab[ports[h].f].nonblock

\* C10 witness: a handle was returned although the DTR raise failed, on a
\* device that had other attributes before.
C10_Witness ==
    /\ Opened /\ last.h = 2
    /\ Failed("TIOCMBIS")
    /\ ports[1].f = -1
    /\ last.cfg # OtherCfg

\* C11: a failed DTR raise does not stop openPort: the attribute apply is the
\* next call, and the error and handle returned are decided by the attribute
\* apply and the clearing of O_NONBLOCK alone, as when the DTR raise
\* succeeded; a failed attribute apply returns the errno of that call and no
\* handle.
C11_DtrBestEffort ==
    /\ (Opened /\ Failed("TIOCMBIS")) =>
          /\ Len(last.calls) >= 3
          /\ last.calls[2].call = "TIOCMBIS"
          /\ last.calls[3].call = "TCSETS2"
    /\ (Opened /\ Issued("TIOCMBIS")) =>
          /\ last.err = IF Failed("TCSETS2") THEN "EINVAL"
                        ELSE IF Failed("SetNonblock") THEN "EIO" ELSE NoErr
          /\ last.h # 0 <=> (~Failed("TCSETS2") /\ ~Failed("SetNonblock"))
    /\ (Opened /\ Failed("TCSETS2")) =>
          /\ last.err = "EINVAL"
          /\ last.h = 0
          /\ \A h \in Handles : ports[h].f # last.calls[1].fd

\* C11 witness: the DTR raise and the attribute apply both failed, and the
\* error returned is that of the attribute apply.
C11_Witness ==
    /\ Opened /\ Failed("TIOCMBIS") /\ Failed("TCSETS2")
    /\ last.err = "EINVAL"
    /\ last.h = 0

\* the positions of the system call c among the calls of the last call
Positions(c) == {i \in 1..Len(last.calls) : last.calls[i].call = c}

\* C14: an open attempt that opened the device node and passed validation
\* issues the DTR raise exactly once, on the descriptor it opened and with
\* the DTR mask, before the attribute apply, whether that apply then succeeds
\* or fails; the attribute apply is issued once, never again after a failure.
C14_DtrOnceBeforeApply ==
    (Opened /\ last.calls[1].ok /\ ValidCfg(last.cfg)) =>
        /\ Cardinality(Positions("TIOCMBIS")) = 1
        /\ Cardinality(Positions("TCSETS2")) = 1
        /\ \A i \in Positions("TIOCMBIS"), j \in Positions("TCSETS2") : i < j
        /\ \A i \in Positions("TIOCMBIS") :
              /\ last.calls[i].fd = last.calls[1].fd
              /\ last.calls[i].arg = TIOCM_DTR
              /\ \A j \in 2..(i - 1) : last.calls[j].call = "open"
        /\ ~Issued("TIOCMBIC")

\* C14 witness: the DTR raise succeeded and the attribute apply after it
\* failed, with 7E2.
C14_Witness ==
    /\ Opened /\ last.cfg = OtherCfg
    /\ Issued("TIOCMBIS") /\ ~Failed("TIOCMBIS")
    /\ Failed("TCSETS2")
    /\ CallNames = <<"open", "TIOCMBIS", "TCSETS2", "close">>

\* C15: once the data bits have passed, one stop bit gives control flags
\* with CSTOPB clear, two stop bits give them with CSTOPB set, and any other
\* stop-bits value (1.5, 0, 3) makes openPort fail with ErrBadStopBits: no
\* attributes are built for it and none are applied, the descriptor is closed.
C15_StopBits ==
    (Opened /\ last.calls[1].ok /\ last.cfg.databits \in {5, 6, 7, 8}) =>
        CASE last.cfg.stopbits = Stop1 ->
                /\ last.err # ErrBadStopBits
                /\ last.attrs # <<>> => BitAnd(Attrs.Cflag, CSTOPB) = {}
          [] last.cfg.stopbits = Stop2 ->
                /\ last.err # ErrBadStopBits
                /\ last.attrs # <<>> => BitAnd(Attrs.Cflag, CSTOPB) = CSTOPB
          [] OTHER ->
                /\ last.err = ErrBadStopBits
                /\ last.h = 0
                /\ last.attrs = <<>>
                /\ ~Issued("TCSETS2")
                /\ CallNames = <<"open", "close">>

\* C15 witness: attributes with two stop bits were applied, and are in force
\* on the device.
C15_Witness ==
    /\ Opened /\ last.cfg.stopbits = Stop2 /\ last.cfg # OtherCfg
    /\ last.err = NoErr
    /\ BitAnd(dev[last.name].termios[1].Cflag, CSTOPB) = CSTOPB

\* the error of the first invalid field of the configuration c, in the order
\* data bits, stop bits, parity
FirstInvalid(c) ==
    IF c.databits \notin {5, 6, 7, 8} THEN ErrBadSize
    ELSE IF c.stopbits \notin {Stop1, Stop2} THEN ErrBadStopBits
    ELSE IF c.parity \notin {ParityNone, ParityOdd, ParityEven, ParityMark}
    THEN ErrBadParity
    ELSE NoErr

\* C16: an openPort call with an invalid configuration on a device node that
\* opened returns the error of the first invalid field in the order data
\* bits, stop bits, parity, and applies nothing: it builds no attributes,
\* issues no TCSETS2, and the attributes of every device stay as they were.
C16_FirstInvalidField ==
    [][ (last'.op = "openPort" /\ last'.calls[1].ok /\ ~ValidCfg(last'.cfg)) =>
            /\ last'.err = FirstInvalid(last'.cfg)
            /\ last'.attrs = <<>>
            /\ \A i \in 1..Len(last'.calls) : last'.calls[i].call # "TCSETS2"
            /\ \A d \in Devs : dev'[d].termios = dev[d].termios
            /\ ports' = ports
      ]_vars

\* C16 witness: data bits, stop bits and parity were all invalid, on a device
\* that has attributes from an earlier open, and the error is that of the
\* data bits.
C16_Witness ==
    /\ Opened /\ last.calls[1].ok
    /\ last.cfg.databits = 9 /\ last.cfg.stopbits = Stop1_5
    /\ last.cfg.parity = ParitySpace
    /\ last.err = ErrBadSize
    /\ dev[last.name].termios # <<>>

\* the value of a uint32 as a Go int
IntOf(speed) == <<speed[1], speed[2], 0, 0>>

\* C17: the attributes openPort applies have input speed equal to output
\* speed and both equal to the baud value asked for, for every baud value,
\* those above the range of a uint32 included.
C17_BaudPassedThrough ==
    (Opened /\ last.attrs # <<>>) =>
        /\ Attrs.Ispeed = Attrs.Ospeed
        /\ IntOf(Attrs.Ispeed) = last.cfg.baud
        /\ IntOf(Attrs.Ospeed) = last.cfg.baud

\* C12: the argument SendBreak hands to the TCSBRK call is zero exactly when
\* the duration asked for is zero; no non-zero duration becomes the zero
\* (default break) request.
C12_BreakArgument ==
    (last.op = "SendBreak") =>
        /\ Len(last.calls) = 1
        /\ last.calls[1].call = "TCSBRK"
        /\ last.calls[1].n = 0 <=> last.arg = 0

\* the operations of a handle other than Close
HandleOps ==
    {"Read", "Write", "Flush", "SendBreak", "GetStatus", "SetDTR", "SetRTS"}

\* C20: on a closed handle every Read, Write, Flush, SendBreak, GetStatus,
\* SetDTR and SetRTS returns an error, issues no system call on a descriptor
\* number, and leaves every device (queues, break, modem lines, attributes),
\* the descriptor table and the handles as they were.
C20_ClosedHandleInert ==
    [][ (last'.op \in HandleOps /\ Closed(last'.h)) =>
            /\ last'.err # NoErr
            /\ \A i \in 1..Len(last'.calls) : last'.calls[i].fd = -1
            /\ dev' = dev
            /\ fdtab' = fdtab
            /\ ports' = ports
      ]_vars

\* C20 witness: Flush was refused on a closed handle whose former descriptor
\* number belongs to an open handle on the device, whose queues both hold
\* data, DTR is high and a break was asked for.
C20_Witness ==
    /\ last.op = "Flush" /\ last.err = "EBADF"
    /\ last.h = 1 /\ Closed(1)
    /\ Len(ports) = 2 /\ ports[2].f = 1
    /\ dev["ttyUSB0"].inq /\ dev["ttyUSB0"].outq
    /\ dev["ttyUSB0"].brk = <<1>>
    /\ TIOCM_DTR \subseteq dev["ttyUSB0"].lines

\* the descriptors open on the device d
OpenOn(d) == {n \in Fds : fdtab[n].open /\ fdtab[n].dev = d}

C18_SetRTSOnlyRTS ==
    [][ /\ (last'.op = "SetRTS") =>
              /\ last'.calls =
                    <<Call(IF last'.arg # 0 THEN "TIOCMBIS" ELSE "TIOCMBIC",
                           ports[last'.h].f, TIOCM_RTS, last'.err = NoErr)>>
              /\ dev' = IF last'.err # NoErr THEN dev
                        ELSE [dev EXCEPT ![DevOf(last'.h)].lines =
                                 IF last'.arg # 0 THEN @ \cup TIOCM_RTS
                                                  ELSE @ \ TIOCM_RTS]
              /\ fdtab' = fdtab /\ ports' = ports
        /\ (last'.op = "SetDTR") =>
              /\ \A d \in Devs : BitAnd(dev'[d].lines, TIOCM_RTS) =
                                    BitAnd(dev[d].lines, TIOCM_RTS)
              /\ (last'.err # NoErr) => dev' = dev
      ]_vars

\* C18 witness: SetRTS raised RTS on a handle whose DTR line is low.
C18_Witness ==
    /\ last.op = "SetRTS" /\ last.arg # 0 /\ last.err = NoErr
    /\ dev[DevOf(last.h)].lines = TIOCM_RTS

\* C19: when a device-control method (Flush, SendBreak, GetStatus, SetDTR,
\* SetRTS) runs while the other goroutine closes and opens ports, its ioctl
\* is made on the descriptor the handle owns at that moment, never on a
\* number that Close released and a later open of another device took.
C19_NoStaleDescriptor ==
    [][ (inflight # NoOp /\ inflight' = NoOp) =>
            \/ ports[inflight.h].f = inflight.fd
            \/ ~ValidFd([fdtab |-> fdtab], inflight.fd)
            \/ fdtab[inflight.fd].dev = inflight.dev
      ]_vars

====
